---- MODULE Spec2Model ----
(***************************************************************************)
(* Vocabulary trainer: the SM-2 scheduler (utils/sm2) with the word store  *)
(* (utils/db), and the OCR word-pair extractor (utils/ocr).                *)
(*                                                                         *)
(* Numbers.  easeFactor is a float that only ever moves in steps that are  *)
(* multiples of 0.01, so it is kept in hundredths (2.5 is 250).  The       *)
(* IEEE-754 doubles of the source give the same intervals as the           *)
(* hundredths for every chain of up to 6 reviews from the default state    *)
(* and for every stored item below; the first difference is at 7 reviews   *)
(* (25 * 2.0599999999999996 rounds to 51, 25 * 2.06 to 52).                *)
(* Timestamps are counted in clock ticks of half a day, so the source's    *)
(* 24 * 60 * 60 * 1000 ms is DAY ticks.  Confidence is in hundredths.      *)
(***************************************************************************)
EXTENDS Integers, Sequences, FiniteSets, TLC

\* ---------------------------------------------------------------- bounds
MaxReviews == 4
MaxClock == 4
MaxStoredReviews == 2
MaxStoredInterval == 7
MaxStoredReps == 3
MaxShortLen == 4
MaxLines == 2
MaxGap == 5
MaxRawLen == 4
MaxMasteryCount == 3
MaxMasteryReps == 6
MaxMasteryInterval == 31
MaxEstimateInterval == 300
MaxWords == 2
MaxRatings == 3
MaxPracticeDays == 1
MaxMessages == 3

\* ------------------------------------------------------------- constants
DAY == 2
EF_SCALE == 100
EF_DEFAULT == 250
EF_FLOOR == 130

Ratings == {"again", "hard", "good", "easy"}

\* lastReview: number | null
null == <<>>
Some(t) == <<t>>

NoWord == [exists |-> FALSE]

VARIABLES
    word,       \* the record of the 'words' object store (NoWord when absent)
    now,        \* Date.now(), in ticks
    log,        \* history: one entry per review of the stored word
    rawText,    \* the recognized text handed to the extractor
    ocrResult,  \* the OCRResult returned for it (NoResult before)
    call,       \* a direct call of one function of the extractor
    ret,        \* the values that call has returned so far
    db,         \* the stored words, statistics and session of the practice page
    practice,   \* the state of the Practice component (NoPractice when closed)
    events,     \* history: one entry per rating given on the practice page
    run         \* one processImage run: its position and what it reported

vars == <<word, now, log, rawText, ocrResult, call, ret, db, practice, events, run>>
schedVars == <<word, now, log>>
callVars == <<call, ret>>
pageVars == <<db, practice, events>>
uiVars == <<pageVars, run>>
ocrVars == <<rawText, ocrResult, callVars, uiVars>>

NoCall == [fn |-> "none"]

NoResult == [none |-> TRUE]

NoDb == [none |-> TRUE]

NoPractice == [open |-> FALSE]

NoRun == [pc |-> "idle", reported |-> <<>>, recognizer |-> <<>>, text |-> null]

\* Math.round: nearest integer, halves towards +infinity; Round(n, d) is
\* Math.round(n / d) for d > 0.
Round(n, d) == (2 * n + d) \div (2 * d)

Max(a, b) == IF a >= b THEN a ELSE b
Min(a, b) == IF a <= b THEN a ELSE b

\* ------------------------------------------------------------ scheduler
ratingToQuality(rating) ==
    CASE rating = "again" -> 0
      [] rating = "hard" -> 2
      [] rating = "good" -> 4
      [] rating = "easy" -> 5

\* mutant: the ease factor is updated on successful reviews only
nextEaseFactor_successOnly(w, quality) ==
    LET ef == w.easeFactor + (10 - (5 - quality) * (8 + (5 - quality) * 2))
    IN  IF quality < 3 THEN w.easeFactor
        ELSE IF ef < EF_FLOOR THEN EF_FLOOR ELSE ef

\* mutant: the floor is not applied
nextEaseFactor_noFloor(w, quality) ==
    w.easeFactor + (10 - (5 - quality) * (8 + (5 - quality) * 2))

\* mutant: the ease factor is floored at 1.0
nextEaseFactor_floorOne(w, quality) ==
    LET ef == w.easeFactor + (10 - (5 - quality) * (8 + (5 - quality) * 2))
    IN  IF ef < EF_SCALE THEN EF_SCALE ELSE ef

\* part_002:39-44; in hundredths 0.1 is 10, 0.08 is 8 and 0.02 is 2
nextEaseFactor(w, quality) ==
    LET ef == w.easeFactor + (10 - (5 - quality) * (8 + (5 - quality) * 2))
    IN  IF ef < EF_FLOOR THEN EF_FLOOR ELSE ef

\* mutant: a lapse resets the repetitions but keeps the interval
nextInterval_noReset(w, quality) ==
    IF quality < 3 THEN w.interval
    ELSE IF w.repetitions = 0 THEN 1
    ELSE IF w.repetitions = 1 THEN 6
    ELSE Round(w.interval * w.easeFactor, EF_SCALE)

\* mutant: the interval is multiplied by the ease factor after its update
nextInterval_newEase(w, quality) ==
    IF quality < 3 THEN 1
    ELSE IF w.repetitions = 0 THEN 1
    ELSE IF w.repetitions = 1 THEN 6
    ELSE Round(w.interval * nextEaseFactor(w, quality), EF_SCALE)

\* mutant: the second successful review is not given its six days
nextInterval_noSix(w, quality) ==
    IF quality < 3 THEN 1
    ELSE IF w.repetitions = 0 THEN 1
    ELSE Round(w.interval * w.easeFactor, EF_SCALE)

\* part_002:22-35, the interval
nextInterval(w, quality) ==
    IF quality < 3 THEN 1
    ELSE IF w.repetitions = 0 THEN 1
    ELSE IF w.repetitions = 1 THEN 6
    ELSE Round(w.interval * w.easeFactor, EF_SCALE)

\* part_002:22-35, the repetitions
nextRepetitions(w, quality) ==
    IF quality < 3 THEN 0 ELSE w.repetitions + 1

\* mutant: the interval is added as ticks, not as days
nextReviewAt_noDay(t, interval) == t + interval

\* part_002:47
nextReviewAt(t, interval) == t + interval * DAY

\* part_002:50
nextTimesCorrect(w, quality) ==
    IF quality >= 3 THEN w.timesCorrect + 1 ELSE w.timesCorrect

\* mutant: only 'again' counts as incorrect
nextTimesIncorrect_againOnly(w, quality) ==
    IF quality < 2 THEN w.timesIncorrect + 1 ELSE w.timesIncorrect

\* part_002:51
nextTimesIncorrect(w, quality) ==
    IF quality < 3 THEN w.timesIncorrect + 1 ELSE w.timesIncorrect

\* the Partial<Word> returned for a call made at instant t
calculateNextReview(w, rating, t) ==
    LET quality == ratingToQuality(rating)
        interval == nextInterval(w, quality)
    IN  [ easeFactor     |-> nextEaseFactor(w, quality),
          interval       |-> interval,
          repetitions    |-> nextRepetitions(w, quality),
          nextReview     |-> nextReviewAt(t, interval),
          lastReview     |-> Some(t),
          timesCorrect   |-> nextTimesCorrect(w, quality),
          timesIncorrect |-> nextTimesIncorrect(w, quality) ]

getDefaultSM2Values(t) ==
    [ easeFactor     |-> EF_DEFAULT,
      interval       |-> 0,
      repetitions    |-> 0,
      nextReview     |-> t,
      lastReview     |-> null,
      timesCorrect   |-> 0,
      timesIncorrect |-> 0 ]

\* { ...currentWord, ...updates }
Merge(w, updates) ==
    [f \in DOMAIN w |-> IF f \in DOMAIN updates THEN updates[f] ELSE w[f]]

\* ---------------------------------------------------------------- mastery
MASTERY_REPS == 5
MASTERY_DAYS == 30

\* The score is computed in doubles.  Its exact value is a fraction with
\* denominator 6 * (timesCorrect + timesIncorrect); the double differs from
\* it by less than 1e-13, so Math.round gives the exact rounding except at
\* some exact halves, where the double falls just below the half.  These
\* are, for timesCorrect and timesIncorrect up to 4, the items
\* <<p, q, r, d>> with accuracy p/q, min(repetitions, 5) = r and
\* min(interval, 30) = d.
DoubleBelowHalf ==
    { <<0, 1, 1, 21>>, <<0, 1, 3, 9>>, <<0, 1, 3, 21>>, <<1, 1, 0, 9>>,
      <<1, 1, 2, 21>>, <<1, 1, 4, 9>>, <<1, 2, 2, 21>>, <<1, 2, 2, 27>>,
      <<1, 2, 3, 21>>, <<1, 2, 4, 15>>, <<1, 2, 5, 9>>, <<1, 3, 0, 7>>,
      <<1, 3, 0, 19>>, <<1, 3, 5, 13>>, <<1, 3, 5, 19>>, <<1, 4, 1, 6>>,
      <<1, 4, 1, 18>>, <<1, 4, 4, 30>>, <<1, 4, 5, 24>>, <<1, 5, 5, 21>>,
      <<1, 5, 5, 27>>, <<2, 3, 0, 29>>, <<2, 3, 1, 17>>, <<2, 3, 1, 23>>,
      <<2, 3, 2, 17>>, <<2, 3, 3, 5>>, <<2, 3, 3, 11>>, <<2, 3, 4, 5>>,
      <<2, 3, 5, 5>>, <<2, 3, 5, 17>>, <<2, 3, 5, 23>>, <<2, 5, 3, 21>>,
      <<2, 5, 3, 27>>, <<2, 5, 4, 21>>, <<2, 5, 5, 15>>, <<3, 4, 0, 24>>,
      <<3, 4, 1, 18>>, <<3, 4, 2, 12>>, <<3, 4, 4, 0>>, <<3, 4, 4, 24>>,
      <<3, 5, 1, 21>>, <<3, 5, 1, 27>>, <<3, 5, 2, 21>>, <<3, 5, 3, 9>>,
      <<3, 5, 3, 15>>, <<3, 5, 4, 9>>, <<4, 5, 0, 21>>, <<4, 5, 1, 15>>,
      <<4, 5, 2, 9>> }

\* mutant: the bonuses are not capped
calculateMastery_noCap(w) ==
    LET total == w.timesCorrect + w.timesIncorrect
    IN  IF total = 0 THEN 0
        ELSE Round(300 * w.timesCorrect + 30 * total * w.repetitions
                       + 5 * total * w.interval, 6 * total)

\* mutant: an item without reviews is scored by its bonuses
calculateMastery_noZero(w) ==
    LET total == w.timesCorrect + w.timesIncorrect
        r == Min(w.repetitions, MASTERY_REPS)
        d == Min(w.interval, MASTERY_DAYS)
    IN  IF total = 0 THEN Round(30 * r + 5 * d, 6)
        ELSE Round(300 * w.timesCorrect + 30 * total * r + 5 * total * d,
                   6 * total)

\* part_002:98-107.  100 * (c/total * 1/2 + r/5 * 1/4 + d/30 * 1/4) is
\* (300 * c + 30 * total * r + 5 * total * d) / (6 * total).
calculateMastery(w) ==
    LET total == w.timesCorrect + w.timesIncorrect
        r == Min(w.repetitions, MASTERY_REPS)
        d == Min(w.interval, MASTERY_DAYS)
        exact == Round(300 * w.timesCorrect + 30 * total * r + 5 * total * d,
                       6 * total)
        below == \E k \in DoubleBelowHalf :
                    /\ w.timesCorrect * k[2] = k[1] * total
                    /\ k[3] = r
                    /\ k[4] = d
    IN  IF total = 0 THEN 0
        ELSE IF below THEN exact - 1
        ELSE exact

\* ------------------------------------------------------------- estimates
\* A text `${count} ${unit}` is the pair <<count, unit>>.
ONE_DAY_TEXT == <<1, "dag">>
MONTH_DAYS == 30
YEAR_DAYS == 365

\* mutant: the months are rounded down
formatDays_floorMonths(days) ==
    IF days = 1 THEN ONE_DAY_TEXT
    ELSE IF days < MONTH_DAYS THEN <<days, "dagen">>
    ELSE IF days < YEAR_DAYS
    THEN LET months == days \div MONTH_DAYS
         IN  <<months, IF months > 1 THEN "maanden" ELSE "maand">>
    ELSE <<Round(days, YEAR_DAYS), "jaar">>

\* part_002:122-132, the branches on days
formatDays(days) ==
    IF days = 1 THEN ONE_DAY_TEXT
    ELSE IF days < MONTH_DAYS THEN <<days, "dagen">>
    ELSE IF days < YEAR_DAYS
    THEN LET months == Round(days, MONTH_DAYS)
         IN  <<months, IF months > 1 THEN "maanden" ELSE "maand">>
    ELSE <<Round(days, YEAR_DAYS), "jaar">>

\* mutant: the interval the word has is formatted, not the next one
getEstimatedIntervals_current(w, t) ==
    [ again |-> ONE_DAY_TEXT,
      hard  |-> formatDays(w.interval),
      good  |-> formatDays(w.interval),
      easy  |-> formatDays(w.interval) ]

\* part_002:110-136, called at instant t
getEstimatedIntervals(w, t) ==
    [ again |-> ONE_DAY_TEXT,
      hard  |-> formatDays(calculateNextReview(w, "hard", t).interval),
      good  |-> formatDays(calculateNextReview(w, "good", t).interval),
      easy  |-> formatDays(calculateNextReview(w, "easy", t).interval) ]

\* mutant: calculateNextReview writes its result into the word it is given
wordAfterEstimate_written(w, t) ==
    [f \in DOMAIN w |->
        IF f \in DOMAIN calculateNextReview(w, "easy", t)
        THEN calculateNextReview(w, "easy", t)[f] ELSE w[f]]

\* the word passed in, after the call: calculateNextReview copies
\* easeFactor, interval and repetitions into locals (part_002:19) and
\* neither function assigns to a field of the word
wordAfterEstimate(w, t) == w

\* ---------------------------------------------------------------- store
StoredWords == IF word.exists THEN {word} ELSE {}

\* mutant: a word is due only strictly after its nextReview
getDueWords_strict(t) == {w \in StoredWords : w.nextReview < t}

\* db.ts getDueWords at instant t
getDueWords(t) == {w \in StoredWords : w.nextReview <= t}

Init ==
    /\ word = NoWord
    /\ now = 0
    /\ log = <<>>
    /\ rawText = <<>>
    /\ ocrResult = NoResult
    /\ call = NoCall
    /\ ret = <<>>
    /\ db = NoDb
    /\ practice = NoPractice
    /\ events = <<>>
    /\ run = NoRun

\* a new word is stored with the default SM-2 values; createWord reads the
\* clock for createdAt within the same tick as getDefaultSM2Values did
CreateWord ==
    /\ ~word.exists
    /\ word' = [exists |-> TRUE, createdAt |-> now] @@ getDefaultSM2Values(now)
    /\ log' = <<>>
    /\ UNCHANGED <<now, ocrVars>>

\* one rating event: the next state is computed and persisted
ReviewBody(rating) ==
    /\ word.exists
    /\ LET updates == calculateNextReview(word, rating, now)
       IN  /\ word' = Merge(word, updates)
           /\ log' = Append(log, [rating |-> rating,
                                  at |-> now,
                                  before |-> word,
                                  after |-> updates])
    /\ UNCHANGED <<now, ocrVars>>

Review(rating) ==
    /\ Len(log) < MaxReviews
    /\ ReviewBody(rating)

DeleteWord ==
    /\ word.exists
    /\ word' = NoWord
    /\ log' = <<>>
    /\ UNCHANGED <<now, ocrVars>>

\* the wall clock advances
Tick ==
    /\ now < MaxClock
    /\ now' = now + 1
    /\ UNCHANGED <<word, log, ocrVars>>

Next ==
    \/ CreateWord
    \/ \E rating \in Ratings : Review(rating)
    \/ DeleteWord
    \/ Tick

Spec == Init /\ [][Next]_vars

\* ------------------------------------------- any persisted item, rated
\* The store hands back whatever was persisted: ease factors below the
\* floor and negative intervals included.
StoredEase == {50, 129, 130, 131, 161, 162, 210, 250, 290}

StoredItems ==
    [ easeFactor     : StoredEase,
      interval       : (0 - MaxStoredInterval)..MaxStoredInterval,
      repetitions    : 0..MaxStoredReps,
      nextReview     : {0},
      lastReview     : {null, Some(0)},
      timesCorrect   : 0..1,
      timesIncorrect : 0..1 ]

InitStored ==
    /\ \E item \in StoredItems :
          word = [exists |-> TRUE, createdAt |-> 0] @@ item
    /\ now = 0
    /\ log = <<>>
    /\ rawText = <<>>
    /\ ocrResult = NoResult
    /\ call = NoCall
    /\ ret = <<>>
    /\ db = NoDb
    /\ practice = NoPractice
    /\ events = <<>>
    /\ run = NoRun

ReviewStored(rating) ==
    /\ Len(log) < MaxStoredReviews
    /\ ReviewBody(rating)

NextStored == \E rating \in Ratings : ReviewStored(rating)

SpecStored == InitStored /\ [][NextStored]_vars

\* ================================================================ extractor
\* A string is a sequence of characters; a character is a one-character
\* string, or the entity name of a character outside ASCII ("&eacute;").

\* \s, as far as the characters modelled go
WS == {" ", "\t", "\r", "\n"}
\* the line terminators '.' does not match
LineTerm == {"\n", "\r"}
\* \d
Digit == {"0", "1", "2", "3", "4", "5", "6", "7", "8", "9"}
\* [-&ndash;&mdash;]
Dashes == {"-", "&ndash;", "&mdash;"}

AsciiLower ==
    {"a", "b", "c", "d", "e", "f", "g", "h", "i", "j", "k", "l", "m", "n",
     "o", "p", "q", "r", "s", "t", "u", "v", "w", "x", "y", "z"}
AsciiUpper ==
    {"A", "B", "C", "D", "E", "F", "G", "H", "I", "J", "K", "L", "M", "N",
     "O", "P", "Q", "R", "S", "T", "U", "V", "W", "X", "Y", "Z"}
\* the accented letters of calculateConfidence's class
AccentLower ==
    {"&agrave;", "&acirc;", "&auml;", "&eacute;", "&egrave;", "&ecirc;",
     "&euml;", "&iuml;", "&icirc;", "&ocirc;", "&ugrave;", "&ucirc;",
     "&uuml;", "&yuml;", "&ccedil;", "&oelig;", "&aelig;"}
AccentUpper ==
    {"&Agrave;", "&Acirc;", "&Auml;", "&Eacute;", "&Egrave;", "&Ecirc;",
     "&Euml;", "&Iuml;", "&Icirc;", "&Ocirc;", "&Ugrave;", "&Ucirc;",
     "&Uuml;", "&Yuml;", "&Ccedil;", "&OElig;", "&AElig;"}
\* letters of \p{L} that calculateConfidence's class does not list
OtherLetters == {"&ouml;", "&szlig;", "&ntilde;", "&Ouml;"}
\* \p{L}
PL == AsciiLower \cup AsciiUpper \cup AccentLower \cup AccentUpper \cup OtherLetters
\* \p{N}
PN == Digit \cup {"&sup2;"}

\* the class of cleanWord's second replace
Bullets ==
    {"&bull;", "&middot;", "&#8729;", "&#9675;", "&#9679;", "&#9702;",
     "&#9642;", "&#9643;", "&#9632;", "&#9633;", "-", "*"}

\* the characters cleanWord's third replace keeps
CleanKeep == PL \cup PN \cup WS \cup {"-", "'", ".", ",", "(", ")"}
\* the characters calculateConfidence does not count as unusual
ConfidenceOK == AsciiLower \cup AsciiUpper \cup AccentLower \cup AccentUpper
                    \cup WS \cup {"-", "'"}

UpperSeq ==
    <<"A", "B", "C", "D", "E", "F", "G", "H", "I", "J", "K", "L", "M", "N",
     "O", "P", "Q", "R", "S", "T", "U", "V", "W", "X", "Y", "Z",
     "&Agrave;", "&Acirc;", "&Auml;", "&Eacute;", "&Egrave;", "&Ecirc;",
     "&Euml;", "&Iuml;", "&Icirc;", "&Ocirc;", "&Ugrave;", "&Ucirc;",
     "&Uuml;", "&Yuml;", "&Ccedil;", "&OElig;", "&AElig;", "&Ouml;">>
LowerSeq ==
    <<"a", "b", "c", "d", "e", "f", "g", "h", "i", "j", "k", "l", "m", "n",
     "o", "p", "q", "r", "s", "t", "u", "v", "w", "x", "y", "z",
     "&agrave;", "&acirc;", "&auml;", "&eacute;", "&egrave;", "&ecirc;",
     "&euml;", "&iuml;", "&icirc;", "&ocirc;", "&ugrave;", "&ucirc;",
     "&uuml;", "&yuml;", "&ccedil;", "&oelig;", "&aelig;", "&ouml;">>

\* String.prototype.toLowerCase
toLowerCase(s) ==
    [i \in 1..Len(s) |->
        IF \E k \in 1..Len(UpperSeq) : UpperSeq[k] = s[i]
        THEN LowerSeq[CHOOSE k \in 1..Len(UpperSeq) : UpperSeq[k] = s[i]]
        ELSE s[i]]

MinOf(S) == CHOOSE x \in S : \A y \in S : x <= y
MaxOf(S) == CHOOSE x \in S : \A y \in S : x >= y
Drop(s, n) == SubSeq(s, n + 1, Len(s))

\* the length of the run of characters of C that starts at index i
RunAt(s, i, C) ==
    LET stop == {j \in i..Len(s) : s[j] \notin C}
    IN  IF stop = {} THEN Len(s) - i + 1 ELSE MinOf(stop) - i

\* String.prototype.trim
trim(s) ==
    LET keep == {i \in 1..Len(s) : s[i] \notin WS}
    IN  IF keep = {} THEN <<>> ELSE SubSeq(s, MinOf(keep), MaxOf(keep))

\* String.prototype.split with a one-character string
RECURSIVE split(_, _)
split(s, ch) ==
    LET hits == {i \in 1..Len(s) : s[i] = ch}
    IN  IF hits = {} THEN <<s>>
        ELSE <<SubSeq(s, 1, MinOf(hits) - 1)>> \o split(Drop(s, MinOf(hits)), ch)

\* Array.prototype.join(' ')
RECURSIVE join(_)
join(parts) ==
    IF parts = <<>> THEN <<>>
    ELSE IF Len(parts) = 1 THEN parts[1]
    ELSE parts[1] \o <<" ">> \o join(Tail(parts))

startsWith(s, p) == Len(s) >= Len(p) /\ SubSeq(s, 1, Len(p)) = p
endsWith(s, p) == Len(s) >= Len(p) /\ SubSeq(s, Len(s) - Len(p) + 1, Len(s)) = p
includes(s, ch) == \E i \in 1..Len(s) : s[i] = ch

\* The separator patterns in their order.  "around" is \s{ws,}[chars]\s{ws,}
\* and "run" is [chars]{min,}.
SEPARATORS ==
    << [kind |-> "around", chars |-> Dashes, min |-> 1],
       [kind |-> "around", chars |-> Dashes, min |-> 0],
       [kind |-> "around", chars |-> {"="}, min |-> 0],
       [kind |-> "around", chars |-> {":"}, min |-> 0],
       [kind |-> "around", chars |-> {"|"}, min |-> 0],
       [kind |-> "run", chars |-> {"\t"}, min |-> 1],
       [kind |-> "run", chars |-> WS, min |-> 4] >>

\* The index after the match of sep that starts at index i, 0 when sep does
\* not match there.  The quantifiers are greedy and a run of whitespace is
\* never followed by whitespace, so there is one way to match at i.
MatchAt(sep, s, i) ==
    IF sep.kind = "run"
    THEN LET a == RunAt(s, i, sep.chars)
         IN  IF a >= sep.min THEN i + a ELSE 0
    ELSE LET a == RunAt(s, i, WS)
             j == i + a
         IN  IF a >= sep.min /\ j <= Len(s) /\ s[j] \in sep.chars
             THEN LET b == RunAt(s, j + 1, WS)
                  IN  IF b >= sep.min THEN j + 1 + b ELSE 0
             ELSE 0

\* the start of the leftmost match at or after index from, 0 when none
FindMatch(sep, s, from) ==
    LET starts == {i \in from..Len(s) : MatchAt(sep, s, i) # 0}
    IN  IF starts = {} THEN 0 ELSE MinOf(starts)

\* RegExp.prototype.test
RegexTest(sep, s) == FindMatch(sep, s, 1) # 0

\* String.prototype.split with a pattern that matches no empty string
RECURSIVE RegexSplitFrom(_, _, _)
RegexSplitFrom(sep, s, p) ==
    LET m == FindMatch(sep, s, p)
    IN  IF m = 0 THEN <<SubSeq(s, p, Len(s))>>
        ELSE <<SubSeq(s, p, m - 1)>> \o RegexSplitFrom(sep, s, MatchAt(sep, s, m))

RegexSplit(sep, s) == RegexSplitFrom(sep, s, 1)

\* replace(/^\d+\.\s*/, '')
StripOrdinal(s) ==
    LET n == RunAt(s, 1, Digit)
    IN  IF n >= 1 /\ n < Len(s) /\ s[n + 1] = "."
        THEN Drop(s, n + 1 + RunAt(s, n + 2, WS))
        ELSE s

\* replace(/^[bullets\-\*]+\s*/, '')
StripBullets(s) ==
    LET n == RunAt(s, 1, Bullets)
    IN  IF n >= 1 THEN Drop(s, n + RunAt(s, n + 1, WS)) ELSE s

\* mutant: only the unaccented letters are letters
IsKept_ascii(c) ==
    c \in AsciiLower \cup AsciiUpper \cup PN \cup WS \cup {"-", "'", ".", ",", "(", ")"}

IsKept(c) == c \in CleanKeep

\* mutant: no trim after the characters are removed
cleanWord_noFinalTrim(w) ==
    SelectSeq(StripBullets(StripOrdinal(trim(w))), IsKept)

cleanWord(w) ==
    trim(SelectSeq(StripBullets(StripOrdinal(trim(w))), IsKept))

\* mutant: each check replaces the confidence
calculateConfidence_replace(term, definition) ==
    LET both == term \o definition
        c0 == 1000
        c1 == IF Len(term) < 2 \/ Len(definition) < 2 THEN 500 ELSE c0
        c2 == IF \E i \in 1..Len(both) : both[i] \in Digit THEN 700 ELSE c1
        c3 == IF \E i \in 1..Len(both) : both[i] \notin ConfidenceOK
              THEN 800 ELSE c2
    IN  Round(c3, 10)

\* confidence in hundredths; the products are kept in thousandths and
\* Math.round(confidence * 100) / 100 brings them to hundredths
calculateConfidence(term, definition) ==
    LET both == term \o definition
        c0 == 1000
        c1 == IF Len(term) < 2 \/ Len(definition) < 2 THEN (c0 * 5) \div 10 ELSE c0
        c2 == IF \E i \in 1..Len(both) : both[i] \in Digit
              THEN (c1 * 7) \div 10 ELSE c1
        c3 == IF \E i \in 1..Len(both) : both[i] \notin ConfidenceOK
              THEN (c2 * 8) \div 10 ELSE c2
    IN  Round(c3, 10)

NoPair == [none |-> TRUE]

TABLE_CONFIDENCE == 70

\* mutant: the table row gets the computed confidence
detectTableFormat_scored(line) ==
    LET n == Len(line)
        fits(g, k) ==
            /\ g + k + 2 <= n
            /\ \A j \in 1..g : line[j] \notin LineTerm
            /\ \A j \in (g + 1)..(g + k) : line[j] \in WS
            /\ \A j \in (g + k + 1)..n : line[j] \notin LineTerm
        gs == {g \in 2..Min(30, n) : \E k \in 4..n : fits(g, k)}
    IN  IF gs = {} THEN NoPair
        ELSE LET g == MaxOf(gs)
                 k == MaxOf({x \in 4..n : fits(g, x)})
                 term == cleanWord(SubSeq(line, 1, g))
                 definition == cleanWord(SubSeq(line, g + k + 1, n))
             IN  IF term # <<>> /\ definition # <<>>
                 THEN [term |-> term, definition |-> definition,
                       confidence |-> calculateConfidence(term, definition)]
                 ELSE NoPair

\* line.match(/^(.{2,30})\s{4,}(.{2,})$/): the first group is as long as it
\* can be, then the gap is as long as it can be
detectTableFormat(line) ==
    LET n == Len(line)
        fits(g, k) ==
            /\ g + k + 2 <= n
            /\ \A j \in 1..g : line[j] \notin LineTerm
            /\ \A j \in (g + 1)..(g + k) : line[j] \in WS
            /\ \A j \in (g + k + 1)..n : line[j] \notin LineTerm
        gs == {g \in 2..Min(30, n) : \E k \in 4..n : fits(g, k)}
    IN  IF gs = {} THEN NoPair
        ELSE LET g == MaxOf(gs)
                 k == MaxOf({x \in 4..n : fits(g, x)})
                 term == cleanWord(SubSeq(line, 1, g))
                 definition == cleanWord(SubSeq(line, g + k + 1, n))
             IN  IF term # <<>> /\ definition # <<>>
                 THEN [term |-> term, definition |-> definition,
                       confidence |-> TABLE_CONFIDENCE]
                 ELSE NoPair

\* the body of parseLine's loop for one separator
TrySeparator(line, sep) ==
    LET parts == RegexSplit(sep, line)
    IN  IF Len(parts) >= 2
        THEN LET term == cleanWord(parts[1])
                 definition == cleanWord(join(Tail(parts)))
             IN  IF term # <<>> /\ definition # <<>>
                 THEN [term |-> term, definition |-> definition,
                       confidence |-> calculateConfidence(term, definition)]
                 ELSE NoPair
        ELSE NoPair

\* mutant: the last pattern that succeeds wins
parseLine_lastHit(line) ==
    LET hits == {i \in 1..Len(SEPARATORS) :
                    TrySeparator(line, SEPARATORS[i]) # NoPair}
    IN  IF hits # {} THEN TrySeparator(line, SEPARATORS[MaxOf(hits)])
        ELSE detectTableFormat(line)

\* mutant: the table row is looked for first
parseLine_tableFirst(line) ==
    LET hits == {i \in 1..Len(SEPARATORS) :
                    TrySeparator(line, SEPARATORS[i]) # NoPair}
    IN  IF detectTableFormat(line) # NoPair THEN detectTableFormat(line)
        ELSE IF hits # {} THEN TrySeparator(line, SEPARATORS[MinOf(hits)])
        ELSE NoPair

parseLine(line) ==
    LET hits == {i \in 1..Len(SEPARATORS) :
                    TrySeparator(line, SEPARATORS[i]) # NoPair}
    IN  IF hits # {} THEN TrySeparator(line, SEPARATORS[MinOf(hits)])
        ELSE detectTableFormat(line)

headerWords ==
    << <<"f", "r", "a", "n", "s">>,
       <<"n", "e", "d", "e", "r", "l", "a", "n", "d", "s">>,
       <<"e", "n", "g", "e", "l", "s">>,
       <<"d", "u", "i", "t", "s">>,
       <<"s", "p", "a", "a", "n", "s">>,
       <<"w", "o", "o", "r", "d">>,
       <<"b", "e", "t", "e", "k", "e", "n", "i", "s">>,
       <<"v", "e", "r", "t", "a", "l", "i", "n", "g">> >>


SHORT_HEADER == 15

\* mutant: only the label words make a header
isLikelyHeader_labelsOnly(line) ==
    LET cleanLine == trim(StripOrdinal(line))
        lowerLine == toLowerCase(cleanLine)
    IN  \E i \in 1..Len(headerWords) :
           LET h == headerWords[i]
           IN  \/ lowerLine = h
               \/ startsWith(lowerLine, h \o <<" ">>)
               \/ endsWith(lowerLine, <<" ">> \o h)

\* mutant: only short lines without a separator make a header
isLikelyHeader_shortOnly(line) ==
    LET cleanLine == trim(StripOrdinal(line))
    IN  /\ Len(cleanLine) < SHORT_HEADER
        /\ ~\E i \in 1..Len(SEPARATORS) : RegexTest(SEPARATORS[i], cleanLine)
        /\ ~includes(cleanLine, "-")
        /\ ~includes(cleanLine, "=")

\* mutant: a line of 15 characters is still short
isLikelyHeader_upTo15(line) ==
    LET cleanLine == trim(StripOrdinal(line))
        lowerLine == toLowerCase(cleanLine)
    IN  \/ /\ Len(cleanLine) <= SHORT_HEADER
           /\ ~\E i \in 1..Len(SEPARATORS) : RegexTest(SEPARATORS[i], cleanLine)
           /\ ~includes(cleanLine, "-")
           /\ ~includes(cleanLine, "=")
        \/ \E i \in 1..Len(headerWords) :
              LET h == headerWords[i]
              IN  \/ lowerLine = h
                  \/ startsWith(lowerLine, h \o <<" ">>)
                  \/ endsWith(lowerLine, <<" ">> \o h)

isLikelyHeader(line) ==
    LET cleanLine == trim(StripOrdinal(line))
        lowerLine == toLowerCase(cleanLine)
    IN  \/ /\ Len(cleanLine) < SHORT_HEADER
           /\ ~\E i \in 1..Len(SEPARATORS) : RegexTest(SEPARATORS[i], cleanLine)
           /\ ~includes(cleanLine, "-")
           /\ ~includes(cleanLine, "=")
        \/ \E i \in 1..Len(headerWords) :
              LET h == headerWords[i]
              IN  \/ lowerLine = h
                  \/ startsWith(lowerLine, h \o <<" ">>)
                  \/ endsWith(lowerLine, <<" ">> \o h)

NonEmpty(s) == s # <<>>

\* rawText.split('\n').map(line => line.trim()).filter(line => line.length > 0)
trimmedLines(text) ==
    LET raw == split(text, "\n")
    IN  SelectSeq([i \in 1..Len(raw) |-> trim(raw[i])], NonEmpty)

MIN_ERROR_LENGTH == 2

\* mutant: every line that fails to parse is reported
handleLine_reportAll(acc, line) ==
    IF isLikelyHeader(line) THEN acc
    ELSE LET pair == parseLine(line)
         IN  IF pair # NoPair
             THEN [acc EXCEPT !.pairs = Append(@, pair)]
             ELSE [acc EXCEPT !.parseErrors = Append(@, line)]

\* the body of parseWordPairs's loop
handleLine(acc, line) ==
    IF isLikelyHeader(line) THEN acc
    ELSE LET pair == parseLine(line)
         IN  IF pair # NoPair
             THEN [acc EXCEPT !.pairs = Append(@, pair)]
             ELSE IF Len(line) > MIN_ERROR_LENGTH
             THEN [acc EXCEPT !.parseErrors = Append(@, line)]
             ELSE acc

RECURSIVE forEachLine(_, _)
forEachLine(acc, lines) ==
    IF lines = <<>> THEN acc
    ELSE forEachLine(handleLine(acc, Head(lines)), Tail(lines))

parseWordPairs(text) ==
    forEachLine([rawText |-> text, pairs |-> <<>>, parseErrors |-> <<>>],
                trimmedLines(text))

\* ------------------------------------------------- the texts extracted
ShortAlphabet == {"a", "1", "-", ":", " ", "\n"}

ShortTexts == UNION {[1..n -> ShortAlphabet] : n \in 0..MaxShortLen}

CuratedLines ==
    << <<"H", "o", "n", "d", " ", "-", " ", "C", "h", "i", "e", "n">>,
       <<"K", "a", "t", " ", "-", " ", "C", "h", "a", "t">>,
       <<"W", "o", "o", "r", "d">>,
       <<"F", "r", "a", "n", "s", " ", "-", " ", "N", "e", "d", "e", "r", "l", "a", "n", "d", "s">>,
       <<"a", "s", "d", "f", "1", " ", "-", " ", "a", "s", "d", "f", "2">>,
       <<"x", "y", "z", "x", "y", "z", "x", "y", "z", "x", "y", "z", "x", "y", "z">>,
       <<"a", "r", "c", "-", "e", "n", "-", "c", "i", "e", "l", " ", "-", " ", "r", "e", "g", "e", "n", "b", "o", "o", "g">>,
       <<"1", ".", " ", "c", "h", "a", "t", " ", "=", " ", "k", "a", "t">>,
       <<" ", " ", "l", "e", " ", "c", "h", "i", "e", "n", ":", " ", "d", "e", " ", "h", "o", "n", "d", "\t">>,
       <<"#", " ", " ", " ", " ", "a", "b", " ", " ", " ", " ", "c", "d">>,
       <<"c", "h", "a", "t", " ", " ", " ", " ", "k", "a", "t">>,
       <<"a", "|">>,
       <<"=", "=", "=", "=", "=", "=", "=">>,
       <<"&bull;", " ", "2", ".", " ", "p", "&egrave;", "r", "e", " ", "&ndash;", " ", "v", "a", "d", "e", "r">>,
       <<"h", "e", "t", " ", "i", "s", " ", "e", "e", "n", " ", "l", "a", "n", "g", "e", " ", "r", "e", "g", "e", "l">>,
       <<"x", ":">>,
       <<"&eacute;", "t", "&eacute;", " ", "-", " ", "z", "o", "m", "e", "r">> >>

RECURSIVE joinLines(_)
joinLines(ls) ==
    IF ls = <<>> THEN <<>>
    ELSE IF Len(ls) = 1 THEN ls[1]
    ELSE ls[1] \o <<"\n">> \o joinLines(Tail(ls))

CuratedTexts ==
    {joinLines([i \in DOMAIN pick |-> CuratedLines[pick[i]]]) :
        pick \in UNION {[1..n -> 1..Len(CuratedLines)] : n \in 1..MaxLines}}

\* a header, a pair, a two-character line, an unparsable line, a pair and
\* a second unparsable line
SampleText ==
    joinLines(<< <<"W", "o", "o", "r", "d">>,
                 <<"H", "o", "n", "d", " ", "-", " ", "C", "h", "i", "e", "n">>,
                 <<"x", ":">>,
                 <<"x", "y", "z", "x", "y", "z", "x", "y", "z", "x", "y", "z", "x", "y", "z">>,
                 <<"K", "a", "t", " ", "-", " ", "C", "h", "a", "t">>,
                 <<"h", "e", "t", " ", "i", "s", " ", "e", "e", "n", " ", "l", "a", "n", "g", "e", " ", "r", "e", "g", "e", "l">> >>)

\* lines of a term, something between, and a definition
Spaces(n) == [i \in 1..n |-> " "]

TermWords ==
    { <<"c", "h", "a", "t">>,
      <<"a", "r", "c", "-", "e", "n", "-", "c", "i", "e", "l">>,
      <<"l", "'", "e", "a", "u">>,
      <<"p", "&egrave;", "r", "e">>,
      <<"a", "s", "d", "f", "1">>,
      <<"a">>,
      <<"l", "e", " ", "c", "h", "i", "e", "n">>,
      <<"g", "r", "a", "n", "d", "-", "p", "&egrave;", "r", "e">>,
      <<"K", "&ouml;", "l", "n">> }

DefinitionWords ==
    { <<"k", "a", "t">>,
      <<"r", "e", "g", "e", "n", "b", "o", "o", "g">>,
      <<"d", "e", " ", "h", "o", "n", "d">>,
      <<"x">>,
      <<"a", "b", "c", "2">> }

SeparatorTexts ==
    { <<" ", "-", " ">>,
      <<"-">>,
      <<" ", "&ndash;", " ">>,
      <<" ", "=", " ">>,
      <<"=">>,
      <<":", " ">>,
      <<":">>,
      <<" ", "|", " ">>,
      <<"|">>,
      <<"\t">> }
    \cup {Spaces(n) : n \in 1..MaxGap}

\* a character cleanWord removes, in front of a table row
JunkColumns == {<<"#">>, <<"?">>}

SeparatedLines ==
    {t \o s \o d : t \in TermWords, s \in SeparatorTexts, d \in DefinitionWords}

JunkLines ==
    {j \o Spaces(4) \o t \o Spaces(n) \o d :
        j \in JunkColumns, t \in TermWords, n \in 3..MaxGap, d \in DefinitionWords}

\* header label words as they may be printed
HeaderLabels ==
    { <<"F", "r", "a", "n", "s">>,
      <<"W", "O", "O", "R", "D">>,
      <<"B", "e", "t", "e", "k", "e", "n", "i", "s">> }

LabelLines ==
    HeaderLabels
    \cup {<<"1", ".", " ">> \o h : h \in HeaderLabels}
    \cup {h \o s \o d : h \in HeaderLabels, s \in SeparatorTexts, d \in DefinitionWords}
    \cup {t \o s \o h : t \in TermWords, s \in SeparatorTexts, h \in HeaderLabels}

CuratedLineSet == {CuratedLines[i] : i \in 1..Len(CuratedLines)}

\* lines of a numbered list
NumberedLines ==
    {<<"1", ".", " ">> \o l : l \in SeparatedLines \cup CuratedLineSet}

LineTexts == SeparatedLines \cup JunkLines \cup LabelLines \cup NumberedLines

InitExtract ==
    /\ word = NoWord
    /\ now = 0
    /\ log = <<>>
    /\ rawText \in ShortTexts \cup CuratedTexts \cup {SampleText} \cup LineTexts
    /\ ocrResult = NoResult
    /\ call = NoCall
    /\ ret = <<>>
    /\ db = NoDb
    /\ practice = NoPractice
    /\ events = <<>>
    /\ run = NoRun

\* the recognized text is handed to parseWordPairs
Extract ==
    /\ ocrResult = NoResult
    /\ ocrResult' = parseWordPairs(rawText)
    /\ UNCHANGED <<rawText, schedVars, callVars, uiVars>>

NextExtract == Extract

SpecExtract == InitExtract /\ [][NextExtract]_vars

\* ------------------------------------------- the functions called directly
\* parseLine, cleanWord and calculateConfidence are private to the module:
\* parseLine gets the trimmed, non-empty lines that are no headers,
\* cleanWord gets pieces of such lines, calculateConfidence gets two
\* non-empty cleaned tokens.

\* the lines parseWordPairs hands to parseLine
ParseLineInputs ==
    {l \in LineTexts \cup CuratedLineSet :
        l # <<>> /\ trim(l) = l /\ ~isLikelyHeader(l)}

RawAlphabet == {"a", "1", ".", "-", " ", "#", "&bull;"}

RawWords ==
    UNION {[1..n -> RawAlphabet] : n \in 0..MaxRawLen}
    \cup { <<"&bull;", " ", "1", ".", " ", "c", "h", "a", "t">>,
           <<"-", " ", "-", " ", "x">>,
           <<"#", "-", " ", "x">> }

RawTokens ==
    { <<"a">>,
      <<"a", "b">>,
      <<"c", "h", "a", "t">>,
      <<"p", "&egrave;", "r", "e">>,
      <<"l", "'", "e", "a", "u">>,
      <<"a", "r", "c", "-", "e", "n", "-", "c", "i", "e", "l">>,
      <<"d", "e", " ", "h", "o", "n", "d">>,
      <<"a", "1">>,
      <<"1", "2">>,
      <<"7">>,
      <<"K", "&ouml;", "l", "n">>,
      <<"(", "m", ")">>,
      <<"x", ".">>,
      <<"m", "&sup2;">> }

\* what cleanWord leaves of them
Tokens == {cleanWord(w) : w \in RawTokens} \ {<<>>}

\* the fields of a word calculateMastery reads
MasteryItems ==
    [ timesCorrect   : 0..MaxMasteryCount,
      timesIncorrect : 0..MaxMasteryCount,
      repetitions    : 0..MaxMasteryReps,
      interval       : 0..MaxMasteryInterval ]

\* the words shown on a flashcard
EstimateEase == {130, 150, 250}

EstimateItems ==
    [ easeFactor     : EstimateEase,
      interval       : 0..MaxEstimateInterval,
      repetitions    : 0..2,
      nextReview     : {0},
      lastReview     : {null},
      timesCorrect   : {0},
      timesIncorrect : {0} ]

Calls ==
    [fn : {"parseLine"}, line : ParseLineInputs]
    \cup [fn : {"cleanWord"}, word : RawWords]
    \cup [fn : {"calculateConfidence"}, term : Tokens, definition : Tokens]
    \cup [fn : {"calculateMastery"}, word : MasteryItems]
    \cup [fn : {"getEstimatedIntervals"}, word : EstimateItems]

InitCalls ==
    /\ word = NoWord
    /\ now = 0
    /\ log = <<>>
    /\ rawText = <<>>
    /\ ocrResult = NoResult
    /\ call \in Calls
    /\ ret = <<>>
    /\ db = NoDb
    /\ practice = NoPractice
    /\ events = <<>>
    /\ run = NoRun

CallParseLine ==
    /\ call.fn = "parseLine"
    /\ ret = <<>>
    /\ ret' = <<parseLine(call.line)>>
    /\ UNCHANGED <<call, rawText, ocrResult, schedVars, uiVars>>

\* cleanWord, and once more on the token it returned
CallCleanWord ==
    /\ call.fn = "cleanWord"
    /\ Len(ret) < 2
    /\ ret' = Append(ret, cleanWord(IF ret = <<>> THEN call.word ELSE ret[Len(ret)]))
    /\ UNCHANGED <<call, rawText, ocrResult, schedVars, uiVars>>

CallCalculateConfidence ==
    /\ call.fn = "calculateConfidence"
    /\ ret = <<>>
    /\ ret' = <<calculateConfidence(call.term, call.definition)>>
    /\ UNCHANGED <<call, rawText, ocrResult, schedVars, uiVars>>

CallCalculateMastery ==
    /\ call.fn = "calculateMastery"
    /\ ret = <<>>
    /\ ret' = <<calculateMastery(call.word)>>
    /\ UNCHANGED <<call, rawText, ocrResult, schedVars, uiVars>>

\* the estimates, and the word as the call leaves it
CallGetEstimatedIntervals ==
    /\ call.fn = "getEstimatedIntervals"
    /\ ret = <<>>
    /\ ret' = <<[estimates |-> getEstimatedIntervals(call.word, now),
                 word |-> wordAfterEstimate(call.word, now)]>>
    /\ UNCHANGED <<call, rawText, ocrResult, schedVars, uiVars>>

NextCalls ==
    \/ CallParseLine
    \/ CallCleanWord
    \/ CallCalculateConfidence
    \/ CallCalculateMastery
    \/ CallGetEstimatedIntervals

SpecCalls == InitCalls /\ [][NextCalls]_vars

\* ---------------------------------------------------------- practice page
WordIds == 1..MaxWords

NoSession == [none |-> TRUE]

\* createSession, Practice.tsx:62-69
NewSession == [ended |-> FALSE, wordsStudied |-> 0, correct |-> 0, incorrect |-> 0]

\* the words of the list as createWord stored them at instant 0, the
\* statistics before any review
NewDb ==
    [ words   |-> [id \in WordIds |-> [id |-> id] @@ getDefaultSM2Values(0)],
      stats   |-> [totalReviews |-> 0, totalWordsLearned |-> 0],
      session |-> NoSession ]

\* the order in which the store returns a set of words: by key
RECURSIVE InKeyOrder(_)
InKeyOrder(ids) ==
    IF ids = {} THEN <<>>
    ELSE LET least == CHOOSE id \in ids : \A other \in ids : id <= other
         IN  <<least>> \o InKeyOrder(ids \ {least})

\* Practice.tsx:12-19: any order of the same elements
shuffleArray(array) ==
    LET n == Len(array)
        Orders == {p \in [1..n -> 1..n] : \A i, j \in 1..n : i # j => p[i] # p[j]}
    IN  {[i \in 1..n |-> array[p[i]]] : p \in Orders}

\* db.ts getDueWords over the words of the store at instant t
dueWordIds(t) == {id \in WordIds : db.words[id].nextReview <= t}

\* Practice.tsx:47-55: the due words, or for a list without due words all of
\* its words
wordsToStudy(hasList, t) ==
    IF hasList /\ dueWordIds(t) = {} THEN WordIds ELSE dueWordIds(t)

InitPractice ==
    /\ word = NoWord
    /\ now = 0
    /\ log = <<>>
    /\ rawText = <<>>
    /\ ocrResult = NoResult
    /\ call = NoCall
    /\ ret = <<>>
    /\ db = NewDb
    /\ practice = NoPractice
    /\ events = <<>>
    /\ run = NoRun

\* Practice.tsx:40-77, the page is opened: the words are read from the store
\* and kept as component state, a session is created
loadData(hasList) ==
    /\ ~practice.open
    /\ \E order \in shuffleArray(InKeyOrder(wordsToStudy(hasList, now))) :
          practice' = [ open           |-> TRUE,
                        words          |-> [i \in 1..Len(order) |-> db.words[order[i]]],
                        currentIndex   |-> 1,
                        finished       |-> FALSE,
                        session        |-> NewSession,
                        correctCount   |-> 0,
                        incorrectCount |-> 0 ]
    /\ db' = [db EXCEPT !.session = NewSession]
    /\ UNCHANGED <<events, run, schedVars, rawText, ocrResult, callVars>>

\* Practice.tsx:103
isCorrect(rating) == rating # "again"

\* Practice.tsx:89-135, one rating of the word on the screen
handleRate(rating) ==
    /\ practice.open
    /\ ~practice.finished
    /\ practice.currentIndex <= Len(practice.words)
    /\ Len(events) < MaxRatings
    /\ LET currentWord == practice.words[practice.currentIndex]
           updates == calculateNextReview(currentWord, rating, now)
           correct == IF isCorrect(rating) THEN 1 ELSE 0
           learned == IF isCorrect(rating) /\ currentWord.repetitions = 0 THEN 1 ELSE 0
           last == practice.currentIndex + 1 > Len(practice.words)
           written == Merge(currentWord, updates)
           stats == [ totalReviews      |-> db.stats.totalReviews + 1,
                      totalWordsLearned |-> db.stats.totalWordsLearned + learned ]
           ended == [ practice.session EXCEPT
                        !.ended = TRUE,
                        !.wordsStudied = Len(practice.words),
                        !.correct = practice.correctCount + correct,
                        !.incorrect = practice.incorrectCount + (1 - correct) ]
       IN  /\ db' = [ words   |-> [db.words EXCEPT ![currentWord.id] = written],
                      stats   |-> stats,
                      session |-> IF last THEN ended ELSE db.session ]
           /\ practice' = [ practice EXCEPT
                              !.correctCount = @ + correct,
                              !.incorrectCount = @ + (1 - correct),
                              !.finished = last,
                              !.currentIndex = IF last THEN @ ELSE @ + 1 ]
           /\ events' = Append(events,
                          [ id      |-> currentWord.id,
                            rating  |-> rating,
                            word    |-> currentWord,
                            stored  |-> db.words[currentWord.id],
                            written |-> written,
                            before  |-> [ correctCount      |-> practice.correctCount,
                                          incorrectCount    |-> practice.incorrectCount,
                                          totalWordsLearned |-> db.stats.totalWordsLearned ],
                            after   |-> [ correctCount      |-> practice.correctCount + correct,
                                          incorrectCount    |-> practice.incorrectCount + (1 - correct),
                                          totalWordsLearned |-> stats.totalWordsLearned ] ])
    /\ UNCHANGED <<run, schedVars, rawText, ocrResult, callVars>>

\* Practice.tsx:137-143, the restart button of the result screen
handleRestart ==
    /\ practice.open
    /\ practice.finished
    /\ \E again \in shuffleArray(practice.words) :
          practice' = [ practice EXCEPT
                          !.currentIndex = 1,
                          !.words = again,
                          !.finished = FALSE,
                          !.correctCount = 0,
                          !.incorrectCount = 0 ]
    /\ UNCHANGED <<db, events, run, schedVars, rawText, ocrResult, callVars>>

\* the page is left
closePractice ==
    /\ practice.open
    /\ practice' = NoPractice
    /\ UNCHANGED <<db, events, run, schedVars, rawText, ocrResult, callVars>>

\* a day passes
nextDay ==
    /\ now < MaxPracticeDays * DAY
    /\ now' = now + DAY
    /\ UNCHANGED <<word, log, ocrVars>>

NextPractice ==
    \/ \E hasList \in BOOLEAN : loadData(hasList)
    \/ \E rating \in Ratings : handleRate(rating)
    \/ handleRestart
    \/ closePractice
    \/ nextDay

SpecPractice == InitPractice /\ [][NextPractice]_vars

\* --------------------------------------------------------- the OCR pipeline
\* Progress values are kept in tenths of a percent, so that
\* 10 + progress * 0.8 is 100 + 8 * progress.
TENTHS == 10

\* Math.round(m.progress * 100) of the 'recognizing text' messages, for
\* m.progress between 0 and 1
RecognizerProgress == {0, 25, 50, 75, 100}

\* the texts a recognition returns
RecognizedTexts ==
    {<<>>, SampleText, joinLines(<<CuratedLines[1], CuratedLines[3]>>)}

\* onProgress as handleImageSelect passes it: the value is kept
report(r, value) == [r EXCEPT !.reported = Append(@, value)]

\* mutant: the recognizer's progress is passed on unscaled
ocrProgress_unscaled(progress) == 10 * TENTHS + TENTHS * progress

\* Scan.tsx:685-687, 10 + progress * 0.8
ocrProgress(progress) == 10 * TENTHS + 8 * progress

InitProcess ==
    /\ word = NoWord
    /\ now = 0
    /\ log = <<>>
    /\ rawText = <<>>
    /\ ocrResult = NoResult
    /\ call = NoCall
    /\ ret = <<>>
    /\ db = NoDb
    /\ practice = NoPractice
    /\ events = <<>>
    /\ run = NoRun

\* Scan.tsx:679-681, processImage up to its first await
processImage ==
    /\ run.pc = "idle"
    /\ run' = [report(run, 0) EXCEPT !.pc = "preprocess"]
    /\ UNCHANGED <<rawText, ocrResult, schedVars, callVars, pageVars>>

\* Scan.tsx:683-684 and 477-483: the image is ready, performOCR is called
\* and waits for its worker
preprocessed ==
    /\ run.pc = "preprocess"
    /\ run' = [report(run, 10 * TENTHS) EXCEPT !.pc = "createWorker"]
    /\ UNCHANGED <<rawText, ocrResult, schedVars, callVars, pageVars>>

\* Scan.tsx:486-489: the worker is there, recognition starts
workerCreated ==
    /\ run.pc = "createWorker"
    /\ run' = [report(run, ocrProgress(0)) EXCEPT !.pc = "recognize"]
    /\ UNCHANGED <<rawText, ocrResult, schedVars, callVars, pageVars>>

\* Scan.tsx:478-482: a 'recognizing text' message of the worker
logger(progress) ==
    /\ run.pc = "recognize"
    /\ Len(run.recognizer) < MaxMessages
    /\ run' = [report(run, ocrProgress(progress)) EXCEPT
                 !.recognizer = Append(@, progress)]
    /\ UNCHANGED <<rawText, ocrResult, schedVars, callVars, pageVars>>

\* Scan.tsx:489-495: recognize resolves with its text, the worker is
\* terminated
recognized(text) ==
    /\ run.pc = "recognize"
    /\ run' = [report(run, ocrProgress(100)) EXCEPT
                 !.pc = "terminate", !.text = Some(text)]
    /\ rawText' = text
    /\ UNCHANGED <<ocrResult, schedVars, callVars, pageVars>>

\* Scan.tsx:689-695: performOCR has returned; the pairs are extracted
parsed ==
    /\ run.pc = "terminate"
    /\ ocrResult' = parseWordPairs(rawText)
    /\ run' = [report(report(run, 95 * TENTHS), 100 * TENTHS) EXCEPT !.pc = "done"]
    /\ UNCHANGED <<rawText, schedVars, callVars, pageVars>>

\* preprocessImage, createWorker or recognize rejects (Scan.tsx:39-41)
failed ==
    /\ run.pc \in {"preprocess", "createWorker", "recognize"}
    /\ run' = [run EXCEPT !.pc = "failed"]
    /\ UNCHANGED <<rawText, ocrResult, schedVars, callVars, pageVars>>

\* Scan.tsx:27-29: another image is selected
handleImageSelect ==
    /\ run.pc \in {"done", "failed"}
    /\ run' = NoRun
    /\ rawText' = <<>>
    /\ ocrResult' = NoResult
    /\ UNCHANGED <<schedVars, callVars, pageVars>>

NextProcess ==
    \/ processImage
    \/ preprocessed
    \/ workerCreated
    \/ \E progress \in RecognizerProgress : logger(progress)
    \/ \E text \in RecognizedTexts : recognized(text)
    \/ parsed
    \/ failed
    \/ handleImageSelect

SpecProcess == InitProcess /\ [][NextProcess]_vars

\* ======================================================== scheduler claims
Lapses == {"again", "hard"}
Successes == {"good", "easy"}
Last(sq) == sq[Len(sq)]

\* n is Math.round(num / den): the integer with n - 1/2 <= num/den < n + 1/2
IsRounded(n, num, den) ==
    /\ (2 * n - 1) * den <= 2 * num
    /\ 2 * num < (2 * n + 1) * den

\* C1: every rating below quality 3 (again, hard) returns repetitions = 0
\* and interval = 1 whatever the prior repetitions and interval were, so the
\* item has interval 1 and repetitions 0 after each rating of a run of agains.
C1_LapseResets ==
    /\ \A i \in DOMAIN log :
          log[i].rating \in Lapses =>
              /\ log[i].after.repetitions = 0
              /\ log[i].after.interval = 1
    /\ (log # <<>> /\ Last(log).rating \in Lapses) =>
          word.repetitions = 0 /\ word.interval = 1

C1_Witness ==
    /\ Len(log) = 2
    /\ log[1].rating = "again" /\ log[2].rating = "again"
    /\ log[1].before.repetitions >= 2
    /\ log[1].before.interval >= 6
    /\ word.interval = 1 /\ word.repetitions = 0

\* C2: a good or easy rating sets interval to 1 when the prior repetitions
\* is 0, to 6 when it is 1, and otherwise to round(prior interval x prior
\* easeFactor), the ease factor being the one before this review's update;
\* repetitions grows by exactly 1.
C2_SuccessInterval ==
    \A i \in DOMAIN log :
        log[i].rating \in Successes =>
            LET b == log[i].before
                a == log[i].after
            IN  /\ a.repetitions = b.repetitions + 1
                /\ b.repetitions = 0 => a.interval = 1
                /\ b.repetitions = 1 => a.interval = 6
                /\ b.repetitions >= 2 =>
                      IsRounded(a.interval, b.interval * b.easeFactor, EF_SCALE)

C2_Witness ==
    /\ log # <<>>
    /\ Last(log).rating = "easy"
    /\ Last(log).before.repetitions >= 2
    /\ Last(log).before.interval = 7
    /\ Last(log).before.easeFactor = 250
    /\ word.interval = 18
    /\ word.easeFactor = 260

\* C3: the returned easeFactor is max(1.3, prior + d) with d = +0.10 for
\* easy, 0 for good, -0.32 for hard and -0.80 for again, on lapsed and on
\* successful reviews alike; so it does not increase under again or hard for
\* an item whose easeFactor is at least 1.3.
EaseDelta(rating) ==
    CASE rating = "easy" -> 10
      [] rating = "good" -> 0
      [] rating = "hard" -> 0 - 32
      [] rating = "again" -> 0 - 80

C3_EaseUpdate ==
    \A i \in DOMAIN log :
        LET b == log[i].before
            a == log[i].after
        IN  /\ a.easeFactor = Max(EF_FLOOR, b.easeFactor + EaseDelta(log[i].rating))
            /\ (log[i].rating \in Lapses /\ b.easeFactor >= EF_FLOOR) =>
                  a.easeFactor <= b.easeFactor

C3_Witness ==
    /\ Len(log) = 2
    /\ log[1].rating = "hard" /\ log[1].before.easeFactor = 250
    /\ log[1].after.easeFactor = 218
    /\ log[2].rating = "again"
    /\ word.easeFactor = 138

\* C4: from an item with easeFactor >= 1.3 and interval >= 0 every rating
\* returns easeFactor >= 1.3 and interval >= 0.
InRange(w) == w.easeFactor >= EF_FLOOR /\ w.interval >= 0

C4_RangePreserved ==
    /\ \A i \in DOMAIN log :
          InRange(log[i].before) => InRange(log[i].after)
    /\ (log # <<>> /\ InRange(log[1].before)) => InRange(word)

C4_Witness ==
    /\ Len(log) = 2
    /\ InRange(log[1].before)
    /\ log[1].before.easeFactor = 131
    /\ log[1].rating = "again"
    /\ log[2].rating = "easy"
    /\ InRange(word)

\* C5: an item with out-of-range persisted values (easeFactor < 1.3 or
\* interval < 0) has them clamped before use: the returned interval is >= 0
\* and is the interval returned for the item with its easeFactor and
\* interval clamped.
Clamped(w) ==
    [w EXCEPT !.easeFactor = Max(EF_FLOOR, w.easeFactor),
              !.interval = Max(0, w.interval)]

C5_ClampedBeforeUse ==
    \A i \in DOMAIN log :
        ~InRange(log[i].before) =>
            /\ log[i].after.interval >= 0
            /\ log[i].after.interval =
                   calculateNextReview(Clamped(log[i].before),
                                       log[i].rating, log[i].at).interval

\* C6: a call made at instant now returns lastReview = now and nextReview =
\* now + interval days; a reviewed word has nextReview = lastReview +
\* interval days and a word never reviewed has lastReview = null.
C6_NextReviewFromLast ==
    /\ \A i \in DOMAIN log :
          /\ log[i].after.lastReview = Some(log[i].at)
          /\ log[i].after.nextReview = log[i].at + log[i].after.interval * DAY
    /\ word.exists =>
          /\ log = <<>> => word.lastReview = null
          /\ log # <<>> =>
                /\ word.lastReview # null
                /\ word.nextReview = word.lastReview[1] + word.interval * DAY

C6_Witness ==
    /\ Len(log) = 2
    /\ word.exists
    /\ word.interval = 6
    /\ word.lastReview = Some(2)
    /\ word.nextReview = 2 + 6 * DAY
    /\ now > 2

\* C7: each call adds 1 to exactly one of timesCorrect (good, easy) and
\* timesIncorrect (again, hard) and leaves the other alone; after n ratings
\* from the default state timesCorrect + timesIncorrect = n.
C7_OneCounterPerReview ==
    /\ \A i \in DOMAIN log :
          LET b == log[i].before
              a == log[i].after
          IN  /\ log[i].rating \in Successes =>
                    /\ a.timesCorrect = b.timesCorrect + 1
                    /\ a.timesIncorrect = b.timesIncorrect
              /\ log[i].rating \in Lapses =>
                    /\ a.timesIncorrect = b.timesIncorrect + 1
                    /\ a.timesCorrect = b.timesCorrect
    /\ word.exists => word.timesCorrect + word.timesIncorrect = Len(log)

C7_Witness ==
    /\ Len(log) = 3
    /\ word.exists
    /\ word.timesCorrect = 1
    /\ word.timesIncorrect = 2
    /\ \E i \in DOMAIN log : log[i].rating = "hard"

\* C8: from the default state three consecutive good ratings at
\* non-decreasing instants give repetitions 3, intervals 1, 6 and
\* round(6 x 2.5) = 15, an easeFactor that stays 2.5, and a nextReview that
\* is strictly greater after each rating than after the one before.
ThreeGoods ==
    /\ Len(log) >= 3
    /\ \A i \in 1..3 : log[i].rating = "good"

C8_ThreeGoods ==
    ThreeGoods =>
        /\ log[1].before.lastReview = null
        /\ log[1].at <= log[2].at /\ log[2].at <= log[3].at
        /\ log[1].after.interval = 1
        /\ log[2].after.interval = 6
        /\ log[3].after.interval = 15
        /\ IsRounded(log[3].after.interval, 6 * log[2].after.easeFactor, EF_SCALE)
        /\ log[3].after.repetitions = 3
        /\ \A i \in 1..3 : log[i].after.easeFactor = EF_DEFAULT
        /\ log[1].after.nextReview < log[2].after.nextReview
        /\ log[2].after.nextReview < log[3].after.nextReview

C8_Witness ==
    /\ Len(log) = 3
    /\ ThreeGoods
    /\ log[1].at = log[2].at
    /\ log[2].at < log[3].at
    /\ word.repetitions = 3
    /\ word.interval = 15

\* C9: the default state is easeFactor 2.5, interval 0, repetitions 0,
\* lastReview null, both counters 0 and nextReview the creation instant; a
\* word created with it is due (returned by getDueWords) at every instant
\* from its creation until its first review.
C9_NewWordIsDue ==
    (word.exists /\ log = <<>>) =>
        /\ word.easeFactor = 250
        /\ word.interval = 0
        /\ word.repetitions = 0
        /\ word.lastReview = null
        /\ word.timesCorrect = 0
        /\ word.timesIncorrect = 0
        /\ word.nextReview = word.createdAt
        /\ word.createdAt <= now
        /\ word \in getDueWords(now)

C9_Witness ==
    /\ word.exists
    /\ log = <<>>
    /\ word.createdAt = 1
    /\ now = 3
    /\ word \in getDueWords(now)

\* ======================================================== extractor claims
Outcome(line) ==
    IF isLikelyHeader(line) THEN "header"
    ELSE IF parseLine(line) # NoPair THEN "pair"
    ELSE IF Len(line) > 2 THEN "unparsed"
    ELSE "dropped"

IsPairLine(line) == Outcome(line) = "pair"
IsUnparsedLine(line) == Outcome(line) = "unparsed"

\* the indices of text at which a line's first non-blank character stands
LineStarts(text) ==
    {i \in 1..Len(text) :
        /\ text[i] \notin WS
        /\ \A j \in 1..(i - 1) :
              (\A k \in j..(i - 1) : text[k] # "\n") => text[j] \in WS}

\* C10: every trimmed non-empty line of the input is handled exactly once
\* and gets exactly one outcome: dropped as a header, one pair appended to
\* pairs, appended to parseErrors (no parse and more than 2 characters), or
\* dropped silently (no parse, at most 2 characters); pairs and parseErrors
\* keep the order of the lines, and every text has a result.
C10_EachLineOnce ==
    ocrResult # NoResult =>
        LET L == trimmedLines(rawText)
            P == SelectSeq(L, IsPairLine)
            headers == {i \in 1..Len(L) : Outcome(L[i]) = "header"}
            dropped == {i \in 1..Len(L) : Outcome(L[i]) = "dropped"}
        IN  /\ Len(L) = Cardinality(LineStarts(rawText))
            /\ \A i \in 1..Len(L) :
                  L[i] # <<>> /\ L[i][1] \notin WS /\ L[i][Len(L[i])] \notin WS
            /\ Len(ocrResult.pairs) = Len(P)
            /\ \A i \in 1..Len(P) : ocrResult.pairs[i] = parseLine(P[i])
            /\ ocrResult.parseErrors = SelectSeq(L, IsUnparsedLine)
            /\ Len(ocrResult.pairs) + Len(ocrResult.parseErrors)
                  + Cardinality(headers) + Cardinality(dropped) = Len(L)
            /\ ocrResult.rawText = rawText

C10_Witness ==
    /\ rawText = SampleText
    /\ ocrResult # NoResult
    /\ Len(ocrResult.pairs) = 2
    /\ ocrResult.pairs[1].term = <<"H", "o", "n", "d">>
    /\ ocrResult.pairs[2].term = <<"K", "a", "t">>
    /\ Len(ocrResult.parseErrors) = 2
    /\ Len(ocrResult.parseErrors[1]) = 15
    /\ Len(trimmedLines(rawText)) = 6

\* ------------------------------------------------------- parseLine claims
ParseLineReturned == call.fn = "parseLine" /\ ret # <<>>

\* the text before the first match of the k-th pattern, cleaned
TermBy(line, k) ==
    LET m == FindMatch(SEPARATORS[k], line, 1)
    IN  IF m = 0 THEN <<>> ELSE cleanWord(SubSeq(line, 1, m - 1))

\* the text after that match, its further matches replaced by one space,
\* cleaned
DefinitionBy(line, k) ==
    LET sep == SEPARATORS[k]
        m == FindMatch(sep, line, 1)
    IN  IF m = 0 THEN <<>>
        ELSE cleanWord(join(RegexSplit(sep, Drop(line, MatchAt(sep, line, m) - 1))))

Succeeds(line, k) == TermBy(line, k) # <<>> /\ DefinitionBy(line, k) # <<>>

Winners(line) == {k \in 1..Len(SEPARATORS) : Succeeds(line, k)}

Matches(k, s) == RegexTest(SEPARATORS[k], s)

\* space-padded dash, bare dash, equals, colon, pipe, tab run, run of at
\* least 4 spaces
SeparatorOrder ==
    /\ Len(SEPARATORS) = 7
    /\ Matches(1, <<"a", " ", "-", " ", "b">>) /\ ~Matches(1, <<"a", "-", "b">>)
    /\ Matches(2, <<"a", "-", "b">>) /\ ~Matches(2, <<"a", "=", "b">>)
    /\ Matches(3, <<"a", "=", "b">>) /\ ~Matches(3, <<"a", ":", "b">>)
    /\ Matches(4, <<"a", ":", "b">>) /\ ~Matches(4, <<"a", "|", "b">>)
    /\ Matches(5, <<"a", "|", "b">>) /\ ~Matches(5, <<"a", "\t", "b">>)
    /\ Matches(6, <<"a", "\t", "b">>) /\ ~Matches(6, <<"a", " ", " ", " ", " ", "b">>)
    /\ Matches(7, <<"a", " ", " ", " ", " ", "b">>)
    /\ ~Matches(7, <<"a", " ", " ", " ", "b">>)

ArcEnCiel == <<"a", "r", "c", "-", "e", "n", "-", "c", "i", "e", "l">>
Regenboog == <<"r", "e", "g", "e", "n", "b", "o", "o", "g">>
ArcLine == ArcEnCiel \o <<" ", "-", " ">> \o Regenboog

\* C11: parseLine tries the seven patterns in the order space-padded dash,
\* bare dash, equals, colon, pipe, tab run, run of at least 4 spaces, and
\* returns the term and definition of the first pattern that leaves both
\* non-empty; no later pattern changes that, so 'arc-en-ciel - regenboog'
\* gives term 'arc-en-ciel' and definition 'regenboog'.
C11_FirstSeparatorWins ==
    ParseLineReturned =>
        /\ SeparatorOrder
        /\ Winners(call.line) # {} =>
              LET k == MinOf(Winners(call.line))
              IN  /\ ret[1] # NoPair
                  /\ ret[1].term = TermBy(call.line, k)
                  /\ ret[1].definition = DefinitionBy(call.line, k)
        /\ call.line = ArcLine =>
              /\ ret[1] # NoPair
              /\ ret[1].term = ArcEnCiel
              /\ ret[1].definition = Regenboog

\* the space-padded dash and the bare dash both succeed on the line, and
\* they would give different terms
C11_Witness ==
    /\ ParseLineReturned
    /\ call.line = ArcLine
    /\ {1, 2} \subseteq Winners(call.line)
    /\ TermBy(call.line, 2) = <<"a", "r", "c">>
    /\ ret[1].term = ArcEnCiel

\* --------------------------------------------------------- header claims
Extracted == ocrResult # NoResult

Emitted == Len(ocrResult.pairs) + Len(ocrResult.parseErrors)

\* the line without its ordinal prefix
Unnumbered(line) == trim(StripOrdinal(line))

HasAny(s, C) == \E i \in 1..Len(s) : s[i] \in C

HasGap(s) == \E i \in 1..Len(s) : RunAt(s, i, WS) >= 4

\* fewer than 15 characters, no dash and no equals sign
ShortNoDash(line) ==
    LET c == Unnumbered(line)
    IN  Len(c) < 15 /\ ~HasAny(c, Dashes \cup {"="})

\* fewer than 15 characters and nothing a separator pattern matches
ShortNoSeparator(line) ==
    LET c == Unnumbered(line)
    IN  Len(c) < 15 /\ ~HasAny(c, Dashes \cup {"=", ":", "|", "\t"}) /\ ~HasGap(c)

\* equals a header label word, starts with one and a space, or ends with a
\* space and one, whatever the case of its letters
IsLabelLine(line) ==
    LET lower == toLowerCase(Unnumbered(line))
    IN  \E i \in 1..Len(headerWords) :
           \/ lower = headerWords[i]
           \/ startsWith(lower, headerWords[i] \o <<" ">>)
           \/ endsWith(lower, <<" ">> \o headerWords[i])

ChatColonKat == <<"c", "h", "a", "t", ":", " ", "k", "a", "t">>
ChatKat == <<"c", "h", "a", "t", " ", "k", "a", "t">>

\* C12 as stated: every line that is short without its ordinal prefix and
\* has no dash and no equals sign is a header, and extract emits nothing
\* for it.
C12_ShortNoDashIsHeader ==
    Extracted =>
        LET L == trimmedLines(rawText)
            S == {i \in 1..Len(L) : ShortNoDash(L[i])}
        IN  /\ \A i \in S : isLikelyHeader(L[i])
            /\ Emitted <= Len(L) - Cardinality(S)

\* C12, amended: every line that is short without its ordinal prefix and
\* has no dash, equals sign, colon, pipe, tab or run of at least 4
\* whitespace characters is a header, and extract emits neither a pair nor
\* an unparsed line for it; a short line with a colon, pipe, tab or run of
\* spaces is no header unless it is a header-label line, and 'chat: kat'
\* yields a pair.
C12_ShortNoSeparatorIsHeader ==
    Extracted =>
        LET L == trimmedLines(rawText)
            S == {i \in 1..Len(L) : ShortNoSeparator(L[i])}
        IN  /\ \A i \in S : isLikelyHeader(L[i])
            /\ Emitted <= Len(L) - Cardinality(S)
            /\ \A i \in 1..Len(L) :
                  ShortNoDash(L[i]) /\ ~ShortNoSeparator(L[i]) /\ ~IsLabelLine(L[i])
                      => ~isLikelyHeader(L[i])
            /\ rawText = ChatColonKat =>
                  /\ Len(ocrResult.pairs) = 1
                  /\ ocrResult.pairs[1].term = <<"c", "h", "a", "t">>
                  /\ ocrResult.pairs[1].definition = <<"k", "a", "t">>

\* two words with one space between them are dropped as a header
C12_Witness ==
    /\ Extracted
    /\ rawText = ChatKat
    /\ ShortNoSeparator(rawText)
    /\ ~IsLabelLine(rawText)
    /\ Emitted = 0

FransNederlands ==
    <<"F", "r", "a", "n", "s", " ", "-", " ", "N", "e", "d", "e", "r", "l",
      "a", "n", "d", "s">>

\* C13: a line that, without its ordinal prefix and in lower case, equals a
\* header label word, starts with one and a space, or ends with a space and
\* one, is dropped: extract emits neither a pair nor an unparsed line for
\* it, also when a separator would split it ('Frans - Nederlands').
C13_LabelLinesDropped ==
    Extracted =>
        LET L == trimmedLines(rawText)
            S == {i \in 1..Len(L) : IsLabelLine(L[i])}
        IN  /\ Emitted <= Len(L) - Cardinality(S)
            /\ \A i \in 1..Len(ocrResult.parseErrors) :
                  ~IsLabelLine(ocrResult.parseErrors[i])
            /\ rawText = FransNederlands => Emitted = 0

\* the padded dash would split the label line into a pair
C13_Witness ==
    /\ Extracted
    /\ rawText = FransNederlands
    /\ IsLabelLine(rawText)
    /\ Succeeds(rawText, 1)
    /\ Emitted = 0

\* ------------------------------------------------------ confidence claims
ConfidenceReturned == call.fn = "calculateConfidence" /\ ret # <<>>

EitherShort == Len(call.term) < 2 \/ Len(call.definition) < 2
EitherHasDigit == HasAny(call.term \o call.definition, Digit)
EitherUnusual ==
    \E i \in 1..Len(call.term \o call.definition) :
        (call.term \o call.definition)[i] \notin ConfidenceOK

\* the three multipliers in tenths
Tenths(applies, m) == IF applies THEN m ELSE 10

\* C14: the confidence is 1.0 times 0.5 when a token is shorter than 2
\* characters, times 0.7 when a token has a digit, times 0.8 when a token
\* has a character outside the letter set; the multipliers compound, in
\* whatever order they are taken, the result is in (0, 1], and it is at
\* most 0.7 when a token has a digit.
C14_Compound ==
    ConfidenceReturned =>
        LET half == Tenths(EitherShort, 5)
            digit == Tenths(EitherHasDigit, 7)
            unusual == Tenths(EitherUnusual, 8)
        IN  /\ ret[1] * 10 = half * digit * unusual
            /\ ret[1] * 10 = unusual * digit * half
            /\ ret[1] * 10 = digit * half * unusual
            /\ ret[1] > 0
            /\ ret[1] <= 100
            /\ EitherHasDigit => ret[1] <= 70

\* a one-digit term: all three multipliers apply
C14_Witness ==
    /\ ConfidenceReturned
    /\ EitherShort
    /\ EitherHasDigit
    /\ EitherUnusual
    /\ ret = <<28>>

\* ------------------------------------------------------ table row claims
\* two columns of at least 2 characters, the first of at most 30, with a
\* gap of at least 4 whitespace characters between them
HasTableShape(line) ==
    \E g \in 2..Min(30, Len(line)) : \E k \in 4..Len(line) :
        /\ g + k + 2 <= Len(line)
        /\ \A j \in (g + 1)..(g + k) : line[j] \in WS

\* C15: parseLine comes to the table fallback only when none of the
\* separator patterns leaves a non-empty term and definition: when one
\* does, the pair is that pattern's and carries the computed confidence;
\* when none does, a pair is returned only for a line of the table shape
\* and then its confidence is 0.7 whatever its characters are.
C15_TableFallbackLast ==
    ParseLineReturned =>
        /\ Winners(call.line) # {} =>
              /\ ret[1] # NoPair
              /\ ret[1].term = TermBy(call.line, MinOf(Winners(call.line)))
              /\ ret[1].confidence =
                     calculateConfidence(ret[1].term, ret[1].definition)
        /\ Winners(call.line) = {} /\ ret[1] # NoPair =>
              /\ HasTableShape(call.line)
              /\ ret[1].confidence = 70

\* a table row behind a removed character, with digits in both columns
C15_Witness ==
    /\ ParseLineReturned
    /\ Winners(call.line) = {}
    /\ ret[1] # NoPair
    /\ HasAny(ret[1].term, Digit)
    /\ calculateConfidence(ret[1].term, ret[1].definition) = 56
    /\ ret[1].confidence = 70

\* the starts of the runs of at least 4 spaces
Gaps(line) ==
    {i \in 1..Len(line) :
        /\ line[i] = " "
        /\ i = 1 \/ line[i - 1] # " "
        /\ RunAt(line, i, {" "}) >= 4}

TheGap(line) == CHOOSE i \in Gaps(line) : TRUE
ColumnA(line) == SubSeq(line, 1, TheGap(line) - 1)
ColumnB(line) == Drop(line, TheGap(line) + RunAt(line, TheGap(line), {" "}) - 1)

\* letters and spaces only, one run of at least 4 spaces, a first column of
\* 2 to 30 characters and a second of at least 2
IsTwoColumnLine(line) ==
    /\ \A i \in 1..Len(line) : line[i] \in PL \cup {" "}
    /\ Cardinality(Gaps(line)) = 1
    /\ Len(ColumnA(line)) \in 2..30
    /\ Len(ColumnB(line)) >= 2
    /\ line[1] # " " /\ line[Len(line)] # " "

AllUsual(s) == \A i \in 1..Len(s) : s[i] \in ConfidenceOK

ChatGapKat == <<"c", "h", "a", "t", " ", " ", " ", " ", "k", "a", "t">>

\* C16 as stated: two alphabetic columns with only a run of at least 4
\* spaces between them come back as term and definition with confidence
\* 0.7.
C16_TwoColumnsAreTableRow ==
    ParseLineReturned /\ IsTwoColumnLine(call.line) =>
        ret[1] = [term |-> ColumnA(call.line), definition |-> ColumnB(call.line),
                  confidence |-> 70]

\* C16, amended: two alphabetic columns with only a run of at least 4
\* spaces between them are split by the seventh separator pattern, before
\* the table fallback is come to: they come back as term and definition
\* with the computed confidence, which is 1.0 when all letters are of the
\* accented-Latin set, as it is for the same words around a dash.
C16_TwoColumnsAreSeparated ==
    ParseLineReturned /\ IsTwoColumnLine(call.line) =>
        /\ Winners(call.line) = {7}
        /\ ret[1] # NoPair
        /\ ret[1].term = ColumnA(call.line)
        /\ ret[1].definition = ColumnB(call.line)
        /\ ret[1].confidence = IF AllUsual(call.line) THEN 100 ELSE 80
        /\ ret[1].confidence =
               parseLine(ColumnA(call.line) \o <<" ", "-", " ">>
                            \o ColumnB(call.line)).confidence

\* the table pattern matches the line too
C16_Witness ==
    /\ ParseLineReturned
    /\ call.line = ChatGapKat
    /\ IsTwoColumnLine(call.line)
    /\ detectTableFormat(call.line) # NoPair
    /\ detectTableFormat(call.line).confidence = 70
    /\ ret[1].confidence = 100

\* --------------------------------------------------- extract, line by line
\* the letters of the accented-Latin set
LatinLetters == AsciiLower \cup AsciiUpper \cup AccentLower \cup AccentUpper

IsLatinWord(s) == Len(s) >= 2 /\ \A i \in 1..Len(s) : s[i] \in LatinLetters

FirstSpace(line) == MinOf({i \in 1..Len(line) : line[i] = " "})
WordT(line) == SubSeq(line, 1, FirstSpace(line) - 1)
WordD(line) == Drop(line, FirstSpace(line) + 2)

\* 'T - D' with single words T and D of at least 2 letters, no label line
IsSimplePairLine(line) ==
    /\ HasAny(line, {" "})
    /\ line = WordT(line) \o <<" ", "-", " ">> \o WordD(line)
    /\ IsLatinWord(WordT(line))
    /\ IsLatinWord(WordD(line))
    /\ ~IsLabelLine(line)

SimplePair(line) ==
    [term |-> WordT(line), definition |-> WordD(line), confidence |-> 100]

EteKat ==
    joinLines(<< <<"&eacute;", "t", "&eacute;", " ", "-", " ", "z", "o", "m", "e", "r">>,
                 <<"K", "a", "t", " ", "-", " ", "C", "h", "a", "t">> >>)

\* C17: a line 'T - D' of two single words of at least 2 letters of the
\* accented-Latin set that is no header-label line yields the pair T, D
\* with confidence 1.0 and no unparsed line; a text of k such lines yields
\* exactly these k pairs in the order of the lines and no unparsed line.
C17_SimplePairs ==
    Extracted =>
        LET L == trimmedLines(rawText)
            S == {i \in 1..Len(L) : IsSimplePairLine(L[i])}
        IN  /\ \A i \in S :
                  /\ \E j \in 1..Len(ocrResult.pairs) :
                        ocrResult.pairs[j] = SimplePair(L[i])
                  /\ \A j \in 1..Len(ocrResult.parseErrors) :
                        ocrResult.parseErrors[j] # L[i]
            /\ Len(ocrResult.pairs) >= Cardinality(S)
            /\ S = 1..Len(L) =>
                  /\ ocrResult.pairs = [i \in 1..Len(L) |-> SimplePair(L[i])]
                  /\ ocrResult.parseErrors = <<>>

\* two such lines, the first with accented letters
C17_Witness ==
    /\ Extracted
    /\ rawText = EteKat
    /\ \A i \in 1..2 : IsSimplePairLine(trimmedLines(rawText)[i])
    /\ Len(ocrResult.pairs) = 2
    /\ ocrResult.pairs[1].term = <<"&eacute;", "t", "&eacute;">>
    /\ ocrResult.pairs[2].definition = <<"C", "h", "a", "t">>
    /\ ocrResult.parseErrors = <<>>

NoSeparator(line) ==
    ~HasAny(line, Dashes \cup {"=", ":", "|", "\t"}) /\ ~HasGap(line)

Count(seq, x) == Cardinality({j \in 1..Len(seq) : seq[j] = x})

\* each of the lines picked out is in parseErrors as often as it is in the
\* text, and no pair is left over for one of them
EachUnparsedOnce(L, S) ==
    /\ \A i \in S : Count(ocrResult.parseErrors, L[i]) = Count(L, L[i])
    /\ Len(ocrResult.pairs) <= Len(L) - Cardinality(S)
    /\ Len(L) = 1 /\ S = {1} =>
          ocrResult.pairs = <<>> /\ ocrResult.parseErrors = <<L[1]>>

XyzLine ==
    <<"x", "y", "z", "x", "y", "z", "x", "y", "z", "x", "y", "z", "x", "y",
      "z">>

\* C18 as stated: a line of 15 or more characters with no separator in it
\* that is no header-label line yields no pair and one unparsed line, the
\* trimmed line.
C18_LongLineUnparsed ==
    Extracted =>
        LET L == trimmedLines(rawText)
        IN  EachUnparsedOnce(L,
                {i \in 1..Len(L) :
                    Len(L[i]) >= 15 /\ NoSeparator(L[i]) /\ ~IsLabelLine(L[i])})

\* C18, amended: a line that has 15 or more characters after its leading
\* ordinal prefix is stripped, with no dash, equals sign, colon, pipe, tab
\* or run of at least 4 spaces in it, that is no header-label line, yields
\* no pair and one unparsed line, the trimmed line with its ordinal prefix.
C18_LongUnnumberedLineUnparsed ==
    Extracted =>
        LET L == trimmedLines(rawText)
        IN  EachUnparsedOnce(L,
                {i \in 1..Len(L) :
                    /\ Len(Unnumbered(L[i])) >= 15
                    /\ NoSeparator(L[i])
                    /\ ~IsLabelLine(L[i])})

\* a line of exactly 15 letters
C18_Witness ==
    /\ Extracted
    /\ rawText = XyzLine
    /\ Len(rawText) = 15
    /\ NoSeparator(rawText)
    /\ ocrResult.pairs = <<>>
    /\ ocrResult.parseErrors = <<XyzLine>>

\* ------------------------------------------------------- cleanWord claims
CleanReturned == call.fn = "cleanWord" /\ ret # <<>>

\* digits and a period in front
HasLeadingOrdinal(t) ==
    LET n == RunAt(t, 1, Digit)
    IN  n >= 1 /\ n < Len(t) /\ t[n + 1] = "."

HasLeadingBullet(t) == t # <<>> /\ t[1] \in Bullets

\* C19: the token cleanWord returns has no leading ordinal prefix and no
\* leading bullet or dash, and cleaning it once more returns it unchanged.
C19_CleanIdempotent ==
    CleanReturned =>
        /\ ~HasLeadingOrdinal(ret[1])
        /\ ~HasLeadingBullet(ret[1])
        /\ Len(ret) = 2 => ret[2] = ret[1]

\* ------------------------------------------------- hyphenated term claims
\* the term words with a hyphen inside and no space
HyphenatedTerms ==
    {t \in TermWords : HasAny(t, {"-"}) /\ ~HasAny(t, WS)}

\* equals sign, colon, pipe, tab, or a run of at least 4 spaces
OtherSeparatorTexts ==
    {s \in SeparatorTexts :
        /\ ~HasAny(s, Dashes)
        /\ HasAny(s, {"=", ":", "|", "\t"}) \/ Len(s) >= 4}

\* C20: for a line of a hyphenated word, then an equals sign, colon, pipe,
\* tab or run of at least 4 spaces, then a definition, the pair emitted has
\* the whole hyphenated word as its term and the text after the separator
\* as its definition.
C20_HyphenatedTermKept ==
    Extracted =>
        \A t \in HyphenatedTerms, s \in OtherSeparatorTexts, d \in DefinitionWords :
            rawText = t \o s \o d =>
                /\ Len(ocrResult.pairs) = 1
                /\ ocrResult.pairs[1].term = t
                /\ ocrResult.pairs[1].definition = d

\* ------------------------------------------------------ emitted pairs
\* letters, digits and other numerals, whitespace, and - ' . , ( )
AllowedChars == PL \cup PN \cup WS \cup {"-", "'", ".", ",", "(", ")"}

IsCleanToken(t) ==
    /\ t # <<>>
    /\ t[1] \notin WS
    /\ t[Len(t)] \notin WS
    /\ \A i \in 1..Len(t) : t[i] \in AllowedChars

JunkRowThenPair ==
    joinLines(<< <<"#", " ", " ", " ", " ", "a", "b", " ", " ", " ", " ", "c", "d">>,
                 <<"H", "o", "n", "d", " ", "-", " ", "C", "h", "i", "e", "n">> >>)

\* C21: every pair in the result, from a separator or from the table
\* fallback, has a non-empty term and definition, each without whitespace
\* at its ends and made only of letters, digits, whitespace, hyphen,
\* apostrophe, period, comma and parentheses.
C21_PairsAreClean ==
    Extracted =>
        \A i \in 1..Len(ocrResult.pairs) :
            /\ IsCleanToken(ocrResult.pairs[i].term)
            /\ IsCleanToken(ocrResult.pairs[i].definition)

\* a table row behind a removed character, then a line with a dash
C21_Witness ==
    /\ Extracted
    /\ rawText = JunkRowThenPair
    /\ Len(ocrResult.pairs) = 2
    /\ ocrResult.pairs[1] = [term |-> <<"a", "b">>, definition |-> <<"c", "d">>,
                             confidence |-> 70]
    /\ ocrResult.pairs[2].confidence = 100
    /\ Winners(trimmedLines(rawText)[1]) = {}

\* --------------------------------------------------------- mastery claims
MasteryReturned == call.fn = "calculateMastery" /\ ret # <<>>

Reviewed(w) == w.timesCorrect + w.timesIncorrect

\* C22: the mastery score is an integer from 0 to 100 for every item with
\* non-negative repetitions, interval and counters, and it is 0 for every
\* item without reviews, whatever its repetitions and interval are.
C22_MasteryRange ==
    MasteryReturned =>
        /\ ret[1] \in 0..100
        /\ Reviewed(call.word) = 0 => ret[1] = 0

\* no reviews, both bonuses at their caps
C22_Witness ==
    /\ MasteryReturned
    /\ Reviewed(call.word) = 0
    /\ call.word.repetitions >= 5
    /\ call.word.interval >= 30
    /\ ret = <<0>>

Abs(x) == IF x < 0 THEN 0 - x ELSE x

\* 100 * (0.5 * accuracy + 0.25 * min(repetitions/5, 1)
\*          + 0.25 * min(interval/30, 1)) as numerator and denominator
ScoreNum(w) ==
    300 * w.timesCorrect + 30 * Reviewed(w) * Min(w.repetitions, 5)
        + 5 * Reviewed(w) * Min(w.interval, 30)
ScoreDen(w) == 6 * Reviewed(w)

EstimatesReturned == call.fn = "getEstimatedIntervals" /\ ret # <<>>

\* the interval a rating of the call's word would give
DaysAfter(rating) == calculateNextReview(call.word, rating, now).interval

SuccessOrHard == {"hard", "good", "easy"}

\* C24: for hard, good and easy the estimate is the formatted interval
\* that calculateNextReview returns for the word and that rating; for again
\* it is the text for 1 day, the interval calculateNextReview returns for
\* again; the word passed in has every field as it was.
C24_EstimatesOfNextState ==
    EstimatesReturned =>
        /\ \A rating \in SuccessOrHard :
              ret[1].estimates[rating] = formatDays(DaysAfter(rating))
        /\ ret[1].estimates["again"] = <<1, "dag">>
        /\ DaysAfter("again") = 1
        /\ ret[1].word = call.word

\* a word whose three estimates differ from the interval it has
C24_Witness ==
    /\ EstimatesReturned
    /\ call.word.repetitions = 2
    /\ call.word.interval = 10
    /\ call.word.easeFactor = 250
    /\ ret[1].estimates = [again |-> <<1, "dag">>, hard |-> <<1, "dag">>,
                           good |-> <<25, "dagen">>, easy |-> <<25, "dagen">>]
    /\ ret[1].word = call.word

\* C25: 1 day is '1 dag', N days from 2 to 29 are 'N dagen', 30 to 364 days
\* are the nearest whole number of months of 30 days, from 1 to 12, and 365
\* days or more the nearest whole number of years of 365 days, at least 1;
\* the unit is 'maand' for 1 month and 'maanden' for more, and 'jaar' for
\* years.
C25_Formatting ==
    EstimatesReturned =>
        \A rating \in SuccessOrHard :
            LET days == DaysAfter(rating)
                text == ret[1].estimates[rating]
            IN  /\ days = 1 => text = <<1, "dag">>
                /\ days \in 2..29 => text = <<days, "dagen">>
                /\ days \in 30..364 =>
                      /\ text[1] \in 1..12
                      /\ 2 * Abs(days - 30 * text[1]) <= 30
                      /\ text[2] = IF text[1] = 1 THEN "maand" ELSE "maanden"
                /\ days >= 365 =>
                      /\ text[1] >= 1
                      /\ 2 * Abs(days - 365 * text[1]) <= 365
                      /\ text[2] = "jaar"

\* 1 day, 364 days and more than a year in one answer
C25_Witness ==
    /\ EstimatesReturned
    /\ DaysAfter("hard") = 1
    /\ DaysAfter("good") = 364
    /\ ret[1].estimates["hard"] = <<1, "dag">>
    /\ ret[1].estimates["good"] = <<12, "maanden">>

NOW_TEXT == <<"Nu">>

\* C26: an interval of less than 1 day is shown as the 'now' text.
C26_ZeroDaysIsNow ==
    EstimatesReturned =>
        \A rating \in SuccessOrHard :
            DaysAfter(rating) < 1 => ret[1].estimates[rating] = NOW_TEXT

\* ----------------------------------------------------- sustained success
SuccessRatings == {"good", "easy"}

\* C27: from the default values, a good or easy rating never makes the
\* interval shorter and makes it longer when the repetitions before it were
\* at least 1; every word with at least 2 repetitions has an interval of at
\* least 6 days, and its next good or easy rating lengthens it.
C27_SuccessGrows ==
    /\ \A i \in 1..Len(log) :
          log[i].rating \in SuccessRatings =>
              /\ log[i].after.interval >= log[i].before.interval
              /\ log[i].before.repetitions >= 1 =>
                    log[i].after.interval > log[i].before.interval
    /\ (word.exists /\ word.repetitions >= 2) => word.interval >= 6
    /\ (word.exists /\ word.repetitions >= 1) =>
          \A rating \in SuccessRatings :
              calculateNextReview(word, rating, now).interval > word.interval

\* two lapses take the ease factor to its floor; two successes later the
\* interval is 6 days and the next success gives 8
C27_Witness ==
    /\ word.exists
    /\ Len(log) = 4
    /\ log[4].rating = "good"
    /\ log[4].before.repetitions = 1
    /\ log[4].after.interval = 6
    /\ word.repetitions = 2
    /\ word.easeFactor = EF_FLOOR
    /\ calculateNextReview(word, "good", now).interval = 8

\* ---------------------------------------------------- practice page claims
\* the number of ratings given to a word
TimesRated(id) == Cardinality({i \in 1..Len(events) : events[i].id = id})

\* C28: every rating computes the next state from the word as it is stored
\* at that moment, so a stored word's timesCorrect + timesIncorrect is the
\* number of times it was rated, also for ratings given after a restart.
C28_EveryRatingCounted ==
    db # NoDb =>
        /\ \A i \in 1..Len(events) : events[i].word = events[i].stored
        /\ \A id \in WordIds :
              db.words[id].timesCorrect + db.words[id].timesIncorrect = TimesRated(id)

\* C29: the page counts a rating as correct exactly when the scheduler adds
\* to timesCorrect and as incorrect exactly when it adds to timesIncorrect;
\* a hard rating is not counted as correct or as a word learned.
C29_CountersAgree ==
    \A i \in 1..Len(events) :
        LET e == events[i]
            schedulerCorrect == e.written.timesCorrect = e.word.timesCorrect + 1
            schedulerIncorrect == e.written.timesIncorrect = e.word.timesIncorrect + 1
        IN  /\ e.after.correctCount = e.before.correctCount + 1 <=> schedulerCorrect
            /\ e.after.incorrectCount = e.before.incorrectCount + 1 <=> schedulerIncorrect
            /\ e.rating = "hard" =>
                  /\ e.after.correctCount = e.before.correctCount
                  /\ e.after.totalWordsLearned = e.before.totalWordsLearned

\* ---------------------------------------------------------- pipeline claim
NonDecreasing(s) == \A i, j \in 1..Len(s) : i <= j => s[i] <= s[j]

\* C30: every progress value reported in a run is between 0 and 100; the
\* values do not go down when the recognizer's own progress does not go
\* down; a run that succeeds has reported 100 last; parseWordPairs has been
\* given the text only after recognition returned it.
C30_ProgressAndOrder ==
    /\ \A i \in 1..Len(run.reported) :
          run.reported[i] >= 0 /\ run.reported[i] <= 100 * TENTHS
    /\ NonDecreasing(run.recognizer) => NonDecreasing(run.reported)
    /\ run.pc = "done" => run.reported[Len(run.reported)] = 100 * TENTHS
    /\ ocrResult # NoResult =>
          /\ run.pc = "done"
          /\ run.text # null
          /\ ocrResult = parseWordPairs(run.text[1])
    /\ run.pc \in {"idle", "preprocess", "createWorker", "recognize", "failed"} =>
          ocrResult = NoResult

\* a run with three messages of the recognizer that gave pairs
C30_Witness ==
    /\ run.pc = "done"
    /\ run.recognizer = <<25, 50, 100>>
    /\ run.reported = <<0, 100, 100, 300, 500, 900, 900, 950, 1000>>
    /\ run.text = Some(SampleText)
    /\ ocrResult # NoResult
    /\ Len(ocrResult.pairs) = 2

====
